---- MODULE Spec2Model ----
(***************************************************************************)
(* Model of collector.go of the sansay exporter: one collection cycle     *)
(* (collector.Collect) over a document delivered by ScrapeTarget.          *)
(*                                                                         *)
(* Go strings are modelled as sequences of one-character strings, so that  *)
(* the first-rune upper-casing of setField/getField, strings.ToLower,      *)
(* fmt.Sprintf concatenation and strconv.ParseFloat are computed, not      *)
(* assumed.                                                                *)
(***************************************************************************)
EXTENDS Integers, Sequences, FiniteSets, TLC

(***************************************************************************)
(* Characters and case conversion (unicode.ToUpper, strings.ToLower).      *)
(***************************************************************************)
LowerLetters ==
  <<"a","b","c","d","e","f","g","h","i","j","k","l","m",
    "n","o","p","q","r","s","t","u","v","w","x","y","z">>

UpperLetters ==
  <<"A","B","C","D","E","F","G","H","I","J","K","L","M",
    "N","O","P","Q","R","S","T","U","V","W","X","Y","Z">>

DigitChars ==
  <<"0","1","2","3","4","5","6","7","8","9">>

ToUpper(c) ==
  IF \E i \in DOMAIN LowerLetters : LowerLetters[i] = c
    THEN UpperLetters[CHOOSE i \in DOMAIN LowerLetters : LowerLetters[i] = c]
    ELSE c

ToLowerChar(c) ==
  IF \E i \in DOMAIN UpperLetters : UpperLetters[i] = c
    THEN LowerLetters[CHOOSE i \in DOMAIN UpperLetters : UpperLetters[i] = c]
    ELSE c

ToLower(s) ==
  [i \in DOMAIN s |-> ToLowerChar(s[i])]

(***************************************************************************)
(* String literals of the program.                                         *)
(***************************************************************************)
SystemStatName ==
  <<"s","y","s","t","e","m","_","s","t","a","t">>

TrunkTableName ==
  <<"X","B","R","e","s","o","u","r","c","e","R","e","a","l",
    "T","i","m","e","S","t","a","t","L","i","s","t">>

HaPreState ==
  <<"h","a","_","p","r","e","_","s","t","a","t","e">>

HaCurrentState ==
  <<"h","a","_","c","u","r","r","e","n","t","_","s","t","a","t","e">>

GroupText ==
  <<"G","r","o","u","p">>

SansayPrefix ==
  <<"s","a","n","s","a","y","_">>

SansayTrunkPrefix ==
  <<"s","a","n","s","a","y","_","t","r","u","n","k","_">>

SansayError ==
  <<"s","a","n","s","a","y","_","e","r","r","o","r">>

ScrapeDuration ==
  <<"s","a","n","s","a","y","_","s","c","r","a","p","e","_",
    "d","u","r","a","t","i","o","n","_","s","e","c","o","n","d","s">>

(***************************************************************************)
(* type Trunk struct: the attribute names, in declaration order.           *)
(***************************************************************************)
TrunkId    == <<"T","r","u","n","k","I","d">>
Alias      == <<"A","l","i","a","s">>
Fqdn       == <<"F","q","d","n">>
NumOrig    == <<"N","u","m","O","r","i","g">>
NumTerm    == <<"N","u","m","T","e","r","m">>
Cps        == <<"C","p","s">>
NumPeak    == <<"N","u","m","P","e","a","k">>
TotalCLZ   == <<"T","o","t","a","l","C","L","Z">>
NumCLZCps  == <<"N","u","m","C","L","Z","C","p","s">>
TotalLimit == <<"T","o","t","a","l","L","i","m","i","t">>
CpsLimit   == <<"C","p","s","L","i","m","i","t">>

TrunkAttrs ==
  {TrunkId, Alias, Fqdn, NumOrig, NumTerm, Cps, NumPeak,
   TotalCLZ, NumCLZCps, TotalLimit, CpsLimit}

\* Trunk{}: every attribute is the empty string.
EmptyTrunk ==
  [a \in TrunkAttrs |-> <<>>]

\* The counters addTrunkMetrics walks, in its order.
TrunkCounters ==
  <<NumOrig, NumTerm, Cps, NumPeak, TotalCLZ, NumCLZCps, TotalLimit, CpsLimit>>

(***************************************************************************)
(* strconv.ParseFloat(value, 64) on the texts of the model: an optional    *)
(* sign, then decimal digits with at most one point and at least one       *)
(* digit, or the words inf / infinity (signed or not) and nan (unsigned),  *)
(* in any letter case.  The result is the decimal value in normal form     *)
(* <<mantissa, exponent>> (mantissa not divisible by 10, zero is <<0,0>>), *)
(* so two spellings of one number give one value.  The texts of the model  *)
(* carry no exponent, hexadecimal or underscore forms.                     *)
(***************************************************************************)
IsDigit(c) ==
  \E i \in DOMAIN DigitChars : DigitChars[i] = c

DigitVal(c) ==
  (CHOOSE i \in DOMAIN DigitChars : DigitChars[i] = c) - 1

RECURSIVE DigitsToNat(_)
DigitsToNat(ds) ==
  IF ds = <<>> THEN 0
  ELSE 10 * DigitsToNat(SubSeq(ds, 1, Len(ds) - 1)) + DigitVal(ds[Len(ds)])

RECURSIVE Normalize(_, _)
Normalize(m, e) ==
  IF m = 0 THEN <<0, 0>>
  ELSE IF m % 10 = 0 THEN Normalize(m \div 10, e + 1)
  ELSE <<m, e>>

InfWords ==
  {<<"i","n","f">>, <<"i","n","f","i","n","i","t","y">>}

NanWord ==
  <<"n","a","n">>

ParseFloat(s) ==
  LET signed == s /= <<>> /\ s[1] \in {"+", "-"}
      neg    == s /= <<>> /\ s[1] = "-"
      u      == IF signed THEN Tail(s) ELSE s
      dots   == {i \in DOMAIN u : u[i] = "."}
      digs   == SelectSeq(u, IsDigit)
      frac   == IF dots = {} THEN 0 ELSE Len(u) - (CHOOSE i \in dots : TRUE)
      mant   == DigitsToNat(digs)
  IN  IF ToLower(u) \in InfWords
        THEN [ok |-> TRUE, val |-> IF neg THEN <<"-Inf">> ELSE <<"+Inf">>]
      ELSE IF ~signed /\ ToLower(u) = NanWord
        THEN [ok |-> TRUE, val |-> <<"NaN">>]
      ELSE IF /\ \A i \in DOMAIN u : IsDigit(u[i]) \/ u[i] = "."
              /\ Cardinality(dots) <= 1
              /\ digs /= <<>>
        THEN [ok |-> TRUE,
              val |-> Normalize(IF neg THEN 0 - mant ELSE mant, 0 - frac)]
      ELSE [ok |-> FALSE, val |-> <<>>]

(***************************************************************************)
(* setField / getField: reflection over *Trunk.  Every attribute of Trunk  *)
(* is an exported string, so CanSet and the Kind test never fail; the      *)
(* only error is the failed lookup.  nme[0] on an empty name is an index   *)
(* out of range: a run-time panic.                                         *)
(***************************************************************************)
\* setField that keeps a value once set (first occurrence wins).
setFieldKeepFirst(v, name, value) ==
  IF name = <<>>
    THEN [panic |-> TRUE, err |-> FALSE, v |-> v]
  ELSE LET nme == [name EXCEPT ![1] = ToUpper(name[1])]
       IN  IF nme \notin DOMAIN v
             THEN [panic |-> FALSE, err |-> TRUE, v |-> v]
             ELSE [panic |-> FALSE, err |-> FALSE,
                   v |-> IF v[nme] = <<>> THEN [v EXCEPT ![nme] = value]
                         ELSE v]

setField(v, name, value) ==
  IF name = <<>>
    THEN [panic |-> TRUE, err |-> FALSE, v |-> v]
  ELSE LET nme == [name EXCEPT ![1] = ToUpper(name[1])]
       IN  IF nme \notin DOMAIN v
             THEN [panic |-> FALSE, err |-> TRUE, v |-> v]
             ELSE [panic |-> FALSE, err |-> FALSE,
                   v |-> [v EXCEPT ![nme] = value]]

\* getField that looks the name up as given, without upper-casing.
getFieldExactName(v, name) ==
  IF name = <<>>
    THEN [panic |-> TRUE, err |-> FALSE, value |-> <<>>]
  ELSE IF name \notin DOMAIN v
    THEN [panic |-> FALSE, err |-> TRUE, value |-> <<>>]
  ELSE [panic |-> FALSE, err |-> FALSE, value |-> v[name]]

getField(v, name) ==
  IF name = <<>>
    THEN [panic |-> TRUE, err |-> FALSE, value |-> <<>>]
  ELSE LET nme == [name EXCEPT ![1] = ToUpper(name[1])]
       IN  IF nme \notin DOMAIN v
             THEN [panic |-> FALSE, err |-> TRUE, value |-> <<>>]
             ELSE [panic |-> FALSE, err |-> FALSE, value |-> v[nme]]

(***************************************************************************)
(* The metrics sent on ch.  kind is "gauge" (MustNewConstMetric) or        *)
(* "invalid" (NewInvalidMetric); src records which place of the document   *)
(* produced the item: table, row and field index (0 where there is none)   *)
(* and the stage of Collect that sent it.  src is bookkeeping of the       *)
(* model only and never read by an action.                                 *)
(***************************************************************************)
NoValue ==
  <<"none">>

Src(t, r, f, stage) ==
  [t |-> t, r |-> r, f |-> f, stage |-> stage]

Gauge(name, value, labels, src) ==
  [kind |-> "gauge", name |-> name, value |-> value, labels |-> labels,
   src |-> src]

Invalid(src) ==
  [kind |-> "invalid", name |-> SansayError, value |-> NoValue,
   labels |-> <<>>, src |-> src]

\* time.Since(start).Seconds(): some non-negative number, left abstract.
Elapsed ==
  <<"elapsed">>

\* addMetric: the items it sends (none when ParseFloat fails).
addMetric(name, value, src) ==
  LET metricName == SansayPrefix \o name
      p          == ParseFloat(value)
  IN  IF ~p.ok THEN <<>>
      ELSE <<Gauge(metricName, p.val, <<>>, src)>>

\* One iteration of the loop of addTrunkMetrics, for the i-th counter.
TrunkMetric(trunk, i, t, r) ==
  LET metric     == TrunkCounters[i]
      metricName == SansayTrunkPrefix \o ToLower(metric)
      g          == getField(trunk, metric)
      p          == ParseFloat(g.value)
  IN  IF g.err THEN Invalid(Src(t, r, i, "counter"))
      ELSE IF ~p.ok THEN Invalid(Src(t, r, i, "counter"))
      ELSE Gauge(metricName, p.val, <<trunk[TrunkId], trunk[Alias]>>,
                 Src(t, r, i, "counter"))

\* addTrunkMetrics that returns at the first failing counter.
RECURSIVE TrunkMetricsFromStopOnError(_, _, _, _)
TrunkMetricsFromStopOnError(trunk, i, t, r) ==
  IF i > Len(TrunkCounters) THEN <<>>
  ELSE IF TrunkMetric(trunk, i, t, r).kind = "invalid"
    THEN <<TrunkMetric(trunk, i, t, r)>>
  ELSE <<TrunkMetric(trunk, i, t, r)>>
         \o TrunkMetricsFromStopOnError(trunk, i + 1, t, r)

\* addTrunkMetrics from the i-th counter on: a failure sends its marker and
\* continues with the next counter.
RECURSIVE TrunkMetricsFrom(_, _, _, _)
TrunkMetricsFrom(trunk, i, t, r) ==
  IF i > Len(TrunkCounters) THEN <<>>
  ELSE <<TrunkMetric(trunk, i, t, r)>> \o TrunkMetricsFrom(trunk, i + 1, t, r)

\* addTrunkMetrics: the items it sends; it always returns nil.
addTrunkMetrics(trunk, t, r) ==
  [items |-> TrunkMetricsFrom(trunk, 1, t, r), err |-> FALSE]

\* A switch whose unknown names fall into the system_stat arm.
TableKindDefaultStat(name) ==
  IF name = TrunkTableName THEN "trunk"
  ELSE "system_stat"

\* The switch on table.Name in Collect.
TableKind(name) ==
  IF name = SystemStatName THEN "system_stat"
  ELSE IF name = TrunkTableName THEN "trunk"
  ELSE "skip"

\* A switch that lacks the ha_current_state case.
FlatSkippedPreOnly(name) ==
  name = HaPreState

\* The switch on field.Name inside the system_stat arm.
FlatSkipped(name) ==
  name = HaPreState \/ name = HaCurrentState

\* An Fqdn test that ignores letter case.
IsGroupAnyCase(trunk) ==
  ToLower(trunk[Fqdn]) = ToLower(GroupText)

\* The test that guards addTrunkMetrics.
IsGroup(trunk) ==
  trunk[Fqdn] = GroupText

(***************************************************************************)
(* Bounds of the model.                                                    *)
(***************************************************************************)
MaxFields ==
  3

MaxRows ==
  2

MaxTables ==
  3

MaxDeviations ==
  2

(***************************************************************************)
(* The documents xml.Unmarshal can deliver: type Sansay, reduced to        *)
(* Database.Table[].Row[].Field[] with the Name attributes and the Text of *)
(* the fields.  A missing name attribute is the empty name.                *)
(***************************************************************************)
Field(name, text) ==
  [Name |-> name, Text |-> text]

Row(fields) ==
  [Field |-> fields]

Table(name, rows) ==
  [Name |-> name, Row |-> rows]

Document(tables) ==
  [Database |-> [Table |-> tables]]

EmptyDocument ==
  Document(<<>>)

SeqsUpTo(S, n) ==
  UNION {[1..k -> S] : k \in 0..n}

\* The wire spelling of an attribute: first character in lower case.
WireName(a) ==
  [a EXCEPT ![1] = ToLowerChar(a[1])]

TextT1     == <<"T","1">>
TextT2     == <<"T","2">>
TextA1     == <<"A","1">>
Text42     == <<"4","2">>
Text7      == <<"7">>
Text3p5    == <<"3",".","5">>
TextActive == <<"a","c","t","i","v","e">>
TextNA     == <<"n","/","a">>
TextLowerGroup == <<"g","r","o","u","p">>
NameCpu    == <<"c","p","u">>
NameNumorig == <<"n","u","m","o","r","i","g">>
NameUpperSystemStat ==
  <<"S","y","s","t","e","m","_","s","t","a","t">>

\* Fields for rows of a system_stat table.
FlatFieldSet ==
  { Field(NameCpu, Text3p5),
    Field(NameCpu, TextActive),
    Field(NameCpu, <<"-","0","7",".","0">>),
    Field(HaPreState, Text3p5),
    Field(HaCurrentState, Text3p5),
    Field(HaCurrentState, TextActive),
    Field(<<>>, Text3p5) }

\* Texts at the edges of ParseFloat, for single-field system_stat rows.
EdgeTexts ==
  { <<>>, <<".">>, <<"+">>, <<"-">>, <<"5",".">>, <<".","5">>,
    <<"+","1","0">>, <<"1",".","2",".","3">>, <<"4","2","x">>,
    <<"I","n","f">>, <<"-","i","n","f","i","n","i","t","y">>,
    <<"N","a","N">>, <<"+","n","a","n">>, <<"0","0","0">> }

\* Fields for rows of an XBResourceRealTimeStatList table.
TrunkFieldSet ==
  { Field(WireName(Fqdn), GroupText),
    Field(WireName(Fqdn), TextLowerGroup),
    Field(Fqdn, GroupText),
    Field(WireName(NumOrig), Text42),
    Field(WireName(NumOrig), Text7),
    Field(WireName(TrunkId), TextT1),
    Field(NameNumorig, Text42),
    Field(<<>>, Text42) }

\* A row that carries the trunk identifier, the alias, an optional fqdn
\* field and the eight counters, each numeric ("10", "20", ...), not
\* numeric, or missing.
CounterPatterns ==
  {p \in [DOMAIN TrunkCounters -> {"num", "bad", "missing"}] :
     Cardinality({i \in DOMAIN TrunkCounters : p[i] /= "num"}) <= MaxDeviations}

RECURSIVE CounterFields(_, _)
CounterFields(p, i) ==
  IF i > Len(TrunkCounters) THEN <<>>
  ELSE (IF p[i] = "missing" THEN <<>>
        ELSE <<Field(WireName(TrunkCounters[i]),
                     IF p[i] = "num" THEN <<DigitChars[i + 1], "0">>
                     ELSE TextNA)>>)
       \o CounterFields(p, i + 1)

FqdnVariants ==
  {<<>>, <<Field(WireName(Fqdn), GroupText)>>,
   <<Field(WireName(Fqdn), TextLowerGroup)>>}

WideRow(fq, p) ==
  Row(<<Field(WireName(TrunkId), TextT1), Field(WireName(Alias), TextA1)>>
      \o fq \o CounterFields(p, 1))

AllNumeric ==
  [i \in DOMAIN TrunkCounters |-> "num"]

\* Representative rows for the documents with several rows or tables.
RepRows ==
  { WideRow(<<Field(WireName(Fqdn), GroupText)>>, AllNumeric),
    Row(<<Field(WireName(TrunkId), TextT2), Field(WireName(NumOrig), Text7)>>),
    Row(<<Field(WireName(Fqdn), GroupText)>>),
    Row(<<Field(NameCpu, Text3p5), Field(HaPreState, Text7),
          Field(HaCurrentState, TextActive)>>),
    Row(<<>>),
    Row(<<Field(<<>>, Text42), Field(WireName(Fqdn), GroupText)>>) }

TableNames ==
  {SystemStatName, TrunkTableName, NameUpperSystemStat}

RepTables ==
  { Table(SystemStatName,
          <<Row(<<Field(NameCpu, Text3p5), Field(HaPreState, Text7)>>)>>),
    Table(TrunkTableName,
          <<WideRow(<<Field(WireName(Fqdn), GroupText)>>, AllNumeric),
            Row(<<Field(WireName(TrunkId), TextT2),
                  Field(WireName(NumOrig), Text7)>>)>>),
    Table(TrunkTableName,
          <<Row(<<Field(NameNumorig, Text42),
                  Field(WireName(Fqdn), GroupText)>>)>>),
    Table(NameUpperSystemStat,
          <<Row(<<Field(NameCpu, Text3p5)>>),
            WideRow(<<Field(WireName(Fqdn), GroupText)>>, AllNumeric)>>),
    Table(<<>>, <<Row(<<Field(<<>>, Text42)>>)>>),
    Table(TrunkTableName, <<Row(<<Field(<<>>, Text42)>>)>>) }

FlatDocuments ==
  {Document(<<Table(SystemStatName, <<Row(fs)>>)>>) :
     fs \in SeqsUpTo(FlatFieldSet, MaxFields)}

TrunkDocuments ==
  {Document(<<Table(TrunkTableName, <<Row(fs)>>)>>) :
     fs \in SeqsUpTo(TrunkFieldSet, MaxFields)}

EdgeDocuments ==
  {Document(<<Table(SystemStatName, <<Row(<<Field(NameCpu, t)>>)>>)>>) :
     t \in EdgeTexts}

WideDocuments ==
  {Document(<<Table(TrunkTableName, <<WideRow(fq, p)>>)>>) :
     fq \in FqdnVariants, p \in CounterPatterns}

RowDocuments ==
  {Document(<<Table(n, rs)>>) :
     n \in TableNames, rs \in SeqsUpTo(RepRows, MaxRows)}

TableDocuments ==
  {Document(ts) : ts \in SeqsUpTo(RepTables, MaxTables)}

Documents ==
  FlatDocuments \cup EdgeDocuments \cup TrunkDocuments \cup WideDocuments
    \cup RowDocuments \cup TableDocuments

(***************************************************************************)
(* ScrapeTarget.  fault is the step of ScrapeTarget that fails in this     *)
(* cycle ("none": it succeeds); doc is what the body unmarshals to.  The   *)
(* steps before xml.Unmarshal return the zero Sansay; a failing            *)
(* xml.Unmarshal returns what it had filled in so far.                     *)
(***************************************************************************)
Faults ==
  {"url", "request", "transport", "body", "xml"}

ScrapeTarget(f, d) ==
  IF f = "none" THEN [sansay |-> d, err |-> FALSE]
  ELSE IF f = "xml" THEN [sansay |-> d, err |-> TRUE]
  ELSE [sansay |-> EmptyDocument, err |-> TRUE]

(***************************************************************************)
(* The state of one cycle of collector.Collect.                            *)
(***************************************************************************)
VARIABLES
  fault,    \* the step of ScrapeTarget that fails, or "none"
  doc,      \* the document behind the target
  sansay,   \* the value ScrapeTarget returned
  pc,       \* position of Collect
  ti,       \* index of the table of the outer loop
  ri,       \* index of the row of the row loop
  fi,       \* index of the field of the field loop
  trunk,    \* the local variable trunk
  ch        \* the metrics sent so far

vars ==
  <<fault, doc, sansay, pc, ti, ri, fi, trunk, ch>>

Tables ==
  sansay.Database.Table

CurTable ==
  Tables[ti]

CurRow ==
  CurTable.Row[ri]

CurField ==
  CurRow.Field[fi]

Init ==
  /\ \/ fault = "none" /\ doc \in Documents
     \/ fault \in Faults /\ doc \in TableDocuments
  /\ sansay = EmptyDocument
  /\ pc = "start"
  /\ ti = 0
  /\ ri = 0
  /\ fi = 0
  /\ trunk = EmptyTrunk
  /\ ch = <<>>

\* The error branch without its return: Collect falls into the table loop.
ScrapeFailedNoReturn ==
  /\ pc = "start"
  /\ ScrapeTarget(fault, doc).err
  /\ sansay' = ScrapeTarget(fault, doc).sansay
  /\ ch' = Append(ch, Invalid(Src(0, 0, 0, "scrape")))
  /\ pc' = "table"
  /\ ti' = 1
  /\ UNCHANGED <<fault, doc, ri, fi, trunk>>

\* Collect, lines 81-87: ScrapeTarget failed; one invalid metric, return.
ScrapeFailed ==
  /\ pc = "start"
  /\ ScrapeTarget(fault, doc).err
  /\ sansay' = ScrapeTarget(fault, doc).sansay
  /\ ch' = Append(ch, Invalid(Src(0, 0, 0, "scrape")))
  /\ pc' = "done"
  /\ UNCHANGED <<fault, doc, ti, ri, fi, trunk>>

\* Collect, lines 81-88: ScrapeTarget succeeded; enter the table loop.
ScrapeSucceeded ==
  /\ pc = "start"
  /\ ~ScrapeTarget(fault, doc).err
  /\ sansay' = ScrapeTarget(fault, doc).sansay
  /\ pc' = "table"
  /\ ti' = 1
  /\ UNCHANGED <<fault, doc, ri, fi, trunk, ch>>

\* Collect, lines 88-89, 101: the switch on the name of the next table.
NextTable ==
  /\ pc = "table"
  /\ ti <= Len(Tables)
  /\ LET kind == TableKind(CurTable.Name)
     IN  IF kind = "system_stat"
           THEN pc' = "statrow" /\ ri' = 1 /\ ti' = ti
         ELSE IF kind = "trunk"
           THEN pc' = "trunkrow" /\ ri' = 1 /\ ti' = ti
         ELSE pc' = "table" /\ ri' = ri /\ ti' = ti + 1
  /\ UNCHANGED <<fault, doc, sansay, fi, trunk, ch>>

\* Collect, line 91: the row loop of a system_stat table.
StatRow ==
  /\ pc = "statrow"
  /\ IF ri <= Len(CurTable.Row)
       THEN pc' = "statfield" /\ fi' = 1 /\ ti' = ti
       ELSE pc' = "table" /\ fi' = fi /\ ti' = ti + 1
  /\ UNCHANGED <<fault, doc, sansay, ri, trunk, ch>>

\* Collect, lines 92-99: one field of a system_stat row.
StatField ==
  /\ pc = "statfield"
  /\ IF fi <= Len(CurRow.Field)
       THEN /\ ch' = IF FlatSkipped(CurField.Name) THEN ch
                     ELSE ch \o addMetric(CurField.Name, CurField.Text,
                                          Src(ti, ri, fi, "stat"))
            /\ fi' = fi + 1
            /\ pc' = pc
            /\ ri' = ri
       ELSE /\ pc' = "statrow"
            /\ ri' = ri + 1
            /\ UNCHANGED <<fi, ch>>
  /\ UNCHANGED <<fault, doc, sansay, ti, trunk>>

\* The row loop with trunk declared outside it: no fresh record per row.
TrunkRowNoReset ==
  /\ pc = "trunkrow"
  /\ IF ri <= Len(CurTable.Row)
       THEN pc' = "trunkfield" /\ fi' = 1 /\ ti' = ti
       ELSE pc' = "table" /\ fi' = fi /\ ti' = ti + 1
  /\ UNCHANGED <<fault, doc, sansay, ri, trunk, ch>>

\* Collect, lines 102-103: the row loop of a trunk table; trunk := Trunk{}.
TrunkRow ==
  /\ pc = "trunkrow"
  /\ IF ri <= Len(CurTable.Row)
       THEN pc' = "trunkfield" /\ fi' = 1 /\ ti' = ti /\ trunk' = EmptyTrunk
       ELSE pc' = "table" /\ fi' = fi /\ ti' = ti + 1 /\ trunk' = trunk
  /\ UNCHANGED <<fault, doc, sansay, ri, ch>>

\* Collect, lines 104-109: one field of a trunk row through setField.
TrunkField ==
  /\ pc = "trunkfield"
  /\ IF fi <= Len(CurRow.Field)
       THEN LET s == setField(trunk, CurField.Name, CurField.Text)
            IN  IF s.panic
                  THEN pc' = "panic" /\ UNCHANGED <<fi, trunk, ch>>
                  ELSE /\ trunk' = s.v
                       /\ ch' = IF s.err
                                  THEN Append(ch, Invalid(Src(ti, ri, fi, "set")))
                                  ELSE ch
                       /\ fi' = fi + 1
                       /\ pc' = pc
       ELSE pc' = "trunkgroup" /\ UNCHANGED <<fi, trunk, ch>>
  /\ UNCHANGED <<fault, doc, sansay, ti, ri>>

\* Collect, lines 110-116: the Fqdn test and addTrunkMetrics.
TrunkGroup ==
  /\ pc = "trunkgroup"
  /\ ch' = IF IsGroup(trunk)
             THEN LET a == addTrunkMetrics(trunk, ti, ri)
                  IN  IF a.err
                        THEN Append(ch \o a.items,
                                    Invalid(Src(ti, ri, 0, "group")))
                        ELSE ch \o a.items
             ELSE ch
  /\ pc' = "trunkrow"
  /\ ri' = ri + 1
  /\ UNCHANGED <<fault, doc, sansay, ti, fi, trunk>>

\* Collect, lines 120-124: after the last table, the duration gauge.
Duration ==
  /\ pc = "table"
  /\ ti > Len(Tables)
  /\ ch' = Append(ch, Gauge(ScrapeDuration, Elapsed, <<>>,
                            Src(0, 0, 0, "duration")))
  /\ pc' = "done"
  /\ UNCHANGED <<fault, doc, sansay, ti, ri, fi, trunk>>

Next ==
  \/ ScrapeFailed
  \/ ScrapeSucceeded
  \/ NextTable
  \/ StatRow
  \/ StatField
  \/ TrunkRow
  \/ TrunkField
  \/ TrunkGroup
  \/ Duration

Spec ==
  Init /\ [][Next]_vars

(***************************************************************************)
(* Vocabulary of the properties.                                           *)
(***************************************************************************)
Terminated ==
  pc \in {"done", "panic"}

IsErrorMarker(it) ==
  it.kind = "invalid" /\ it.name = SansayError

IsDurationGauge(it) ==
  it.kind = "gauge" /\ it.name = ScrapeDuration

\* The items sent from table t, from row r of table t, and by one stage of
\* row r of table t, in the order sent.
TableItems(t) ==
  LET test(it) == it.src.t = t
  IN  SelectSeq(ch, test)

RowItems(t, r) ==
  LET test(it) == it.src.t = t /\ it.src.r = r
  IN  SelectSeq(ch, test)

StageItems(t, r, stage) ==
  LET test(it) == it.src.t = t /\ it.src.r = r /\ it.src.stage = stage
  IN  SelectSeq(ch, test)

\* What a consumer of the channel sees of an item.
Visible(it) ==
  [kind |-> it.kind, name |-> it.name, value |-> it.value,
   labels |-> it.labels]

VisibleSeq(items) ==
  [i \in DOMAIN items |-> Visible(items[i])]

\* A trunk row has just been completed: Collect is back at the head of the
\* row loop, and trunk is still the record assembled from row ri - 1.
RowCompleted ==
  pc = "trunkrow" /\ ri > 1

CompletedRow ==
  CurTable.Row[ri - 1]

\* A wire name addresses attribute a when it is a, or a with its first
\* character in lower case.
Addresses(name, a) ==
  name = a \/ name = WireName(a)

Unmatched(name) ==
  \A a \in TrunkAttrs : ~Addresses(name, a)

Suppliers(row, a) ==
  {i \in DOMAIN row.Field : Addresses(row.Field[i].Name, a)}

SetMax(S) ==
  CHOOSE x \in S : \A y \in S : y <= x

SetMin(S) ==
  CHOOSE x \in S : \A y \in S : x <= y

LastText(row, a) ==
  IF Suppliers(row, a) = {} THEN <<>>
  ELSE row.Field[SetMax(Suppliers(row, a))].Text

Numeric(text) ==
  ParseFloat(text).ok

(***************************************************************************)
(* C1: when ScrapeTarget fails (any of its five failing steps), Collect    *)
(* sends exactly one sansay_error invalid metric and returns: the stream   *)
(* has length 1, holds no gauge and no sansay_scrape_duration_seconds.     *)
(***************************************************************************)
C1_FailedScrapeSendsOneError ==
  fault /= "none" =>
    /\ pc \in {"start", "done"}
    /\ pc = "start" => ch = <<>>
    /\ pc = "done" =>
         /\ Len(ch) = 1
         /\ IsErrorMarker(ch[1])
         /\ \A i \in DOMAIN ch : ch[i].kind /= "gauge"
         /\ \A i \in DOMAIN ch : ~IsDurationGauge(ch[i])

\* A cycle whose XML parse failed on a body that had delivered tables.
C1_Witness ==
  /\ fault = "xml"
  /\ pc = "done"
  /\ Len(sansay.Database.Table) >= 2
  /\ Len(ch) = 1

(***************************************************************************)
(* C2: when ScrapeTarget succeeds, for every document, Collect ends having *)
(* sent exactly one sansay_scrape_duration_seconds gauge, and that gauge   *)
(* is the last item of the stream.                                         *)
(***************************************************************************)
C2_DurationGaugeSentLast ==
  (fault = "none" /\ Terminated) =>
    /\ Cardinality({i \in DOMAIN ch : IsDurationGauge(ch[i])}) = 1
    /\ ch /= <<>>
    /\ IsDurationGauge(ch[Len(ch)])

(***************************************************************************)
(* C3: for a trunk row whose assembled Fqdn is "Group", the counter stage  *)
(* sends exactly eight items, the i-th for the i-th counter: the gauge     *)
(* sansay_trunk_<lowercased counter> when the counter's text is numeric,   *)
(* otherwise (not numeric, or missing from the row) one sansay_error       *)
(* marker; a failure does not stop the counters after it.                  *)
(***************************************************************************)
C3_GroupRowSendsEightItems ==
  (RowCompleted /\ trunk[Fqdn] = GroupText) =>
    LET items == StageItems(ti, ri - 1, "counter")
    IN  /\ Len(items) = 8
        /\ Len(TrunkCounters) = 8
        /\ \A i \in 1..8 :
             LET c == TrunkCounters[i]
             IN  /\ items[i].src.f = i
                 /\ Numeric(trunk[c]) =>
                      /\ items[i].kind = "gauge"
                      /\ items[i].name = SansayTrunkPrefix \o ToLower(c)
                 /\ ~Numeric(trunk[c]) => IsErrorMarker(items[i])
                 /\ Suppliers(CompletedRow, c) = {} => IsErrorMarker(items[i])
        /\ Cardinality({i \in 1..8 : items[i].kind = "gauge"})
             + Cardinality({i \in 1..8 : IsErrorMarker(items[i])}) = 8

\* A Group row whose first counter is not numeric, whose second is missing
\* and whose last is numeric: two markers, then gauges up to the last one,
\* sansay_trunk_cpslimit.
C3_Witness ==
  /\ RowCompleted
  /\ trunk[Fqdn] = GroupText
  /\ Suppliers(CompletedRow, NumOrig) /= {}
  /\ ~Numeric(trunk[NumOrig])
  /\ Suppliers(CompletedRow, NumTerm) = {}
  /\ LET items == StageItems(ti, ri - 1, "counter")
     IN  /\ Len(items) = 8
         /\ IsErrorMarker(items[1])
         /\ IsErrorMarker(items[2])
         /\ items[8].kind = "gauge"
         /\ items[8].name =
              <<"s","a","n","s","a","y","_","t","r","u","n","k","_",
                "c","p","s","l","i","m","i","t">>

(***************************************************************************)
(* C4: the items sent from a system_stat table are exactly one gauge       *)
(* sansay_<field name> for each field, in every row, whose name is neither *)
(* ha_pre_state nor ha_current_state and whose text is numeric, and        *)
(* nothing else: no gauge for the two ha fields even when numeric, no      *)
(* gauge and no marker for a text that does not parse, and the fields      *)
(* after it are still handled.                                             *)
(***************************************************************************)
RECURSIVE AllFields(_)
AllFields(rows) ==
  IF rows = <<>> THEN <<>>
  ELSE Head(rows).Field \o AllFields(Tail(rows))

C4_Eligible(f) ==
  /\ f.Name /= HaPreState
  /\ f.Name /= HaCurrentState
  /\ Numeric(f.Text)

C4_Expected(table) ==
  LET fs == SelectSeq(AllFields(table.Row), C4_Eligible)
  IN  [i \in DOMAIN fs |->
         [kind |-> "gauge", name |-> SansayPrefix \o fs[i].Name,
          value |-> ParseFloat(fs[i].Text).val, labels |-> <<>>]]

C4_SystemStatGauges ==
  \A t \in DOMAIN Tables :
    (Tables[t].Name = SystemStatName /\ t < ti) =>
      VisibleSeq(TableItems(t)) = C4_Expected(Tables[t])

\* A finished system_stat table holding a numeric ha_pre_state, then a cpu
\* whose text does not parse, then a numeric cpu: one gauge, sansay_cpu.
C4_Witness ==
  /\ pc = "done"
  /\ Len(Tables) = 1
  /\ Tables[1].Name = SystemStatName
  /\ Len(Tables[1].Row) = 1
  /\ Tables[1].Row[1].Field =
       <<Field(HaPreState, Text3p5), Field(NameCpu, TextActive),
         Field(NameCpu, Text3p5)>>
  /\ Len(TableItems(1)) = 1
  /\ TableItems(1)[1].name = <<"s","a","n","s","a","y","_","c","p","u">>
  /\ TableItems(1)[1].value = <<35, -1>>

(***************************************************************************)
(* C5: for a trunk row whose assembled Fqdn is not exactly "Group"         *)
(* (a row without any fqdn field included), no gauge is sent for that row, *)
(* even when all eight counters are present and numeric.                   *)
(***************************************************************************)
C5_NonGroupRowSendsNoGauge ==
  (RowCompleted /\ trunk[Fqdn] /= GroupText) =>
    /\ \A i \in DOMAIN RowItems(ti, ri - 1) :
         RowItems(ti, ri - 1)[i].kind /= "gauge"
    /\ StageItems(ti, ri - 1, "counter") = <<>>

\* A completed row with fqdn "group" and eight numeric counters present.
C5_Witness ==
  /\ RowCompleted
  /\ trunk[Fqdn] = TextLowerGroup
  /\ \A i \in DOMAIN TrunkCounters :
       /\ Suppliers(CompletedRow, TrunkCounters[i]) /= {}
       /\ Numeric(trunk[TrunkCounters[i]])
  /\ RowItems(ti, ri - 1) = <<>>

(***************************************************************************)
(* C6: for every field of a trunk row whose name addresses no attribute    *)
(* of Trunk (the empty name of a missing name attribute included), exactly *)
(* one sansay_error marker is sent for that field and Collect goes on      *)
(* with the fields after it.                                               *)
(***************************************************************************)
C6_UnmatchedFieldIsolated ==
  pc \in {"trunkfield", "trunkgroup", "panic"} =>
    \A f \in DOMAIN CurRow.Field :
      ((f < fi \/ (f = fi /\ pc = "panic")) /\ Unmatched(CurRow.Field[f].Name))
        => /\ Cardinality({k \in DOMAIN ch :
                             /\ ch[k].src = Src(ti, ri, f, "set")
                             /\ IsErrorMarker(ch[k])}) = 1
           /\ pc /= "panic"

(***************************************************************************)
(* C7, as stated: when a trunk row holds two or more fields with the same  *)
(* name, the attribute holds the text of the first of them once the row    *)
(* is assembled.                                                           *)
(***************************************************************************)
C7_FirstOccurrenceWins ==
  RowCompleted =>
    LET fs == CompletedRow.Field
    IN  \A a \in TrunkAttrs :
          \A i, j \in DOMAIN fs :
            (i < j /\ fs[i].Name = fs[j].Name /\ Addresses(fs[i].Name, a))
              => trunk[a] =
                   fs[SetMin({k \in DOMAIN fs : fs[k].Name = fs[i].Name})].Text

(***************************************************************************)
(* C7, amended: the last occurrence is authoritative.  Once the row is     *)
(* assembled, an attribute addressed by one or more fields holds the text  *)
(* of the last of them in row order, and the Fqdn test, the labels and the *)
(* gauge values are computed from those last texts.                        *)
(***************************************************************************)
C7_LastOccurrenceWins ==
  RowCompleted =>
    LET row   == CompletedRow
        items == StageItems(ti, ri - 1, "counter")
    IN  /\ \A a \in TrunkAttrs :
             Suppliers(row, a) /= {} => trunk[a] = LastText(row, a)
        /\ (items /= <<>>) <=> (LastText(row, Fqdn) = GroupText)
        /\ \A i \in DOMAIN items :
             items[i].kind = "gauge" =>
               /\ items[i].labels =
                    <<LastText(row, TrunkId), LastText(row, Alias)>>
               /\ items[i].value =
                    ParseFloat(LastText(row, TrunkCounters[items[i].src.f])).val

\* A completed row numOrig "42", numOrig "7", fqdn "Group": the record
\* holds "7" and the sansay_trunk_numorig gauge carries 7.
C7_Witness ==
  /\ RowCompleted
  /\ CompletedRow.Field =
       <<Field(WireName(NumOrig), Text42), Field(WireName(NumOrig), Text7),
         Field(WireName(Fqdn), GroupText)>>
  /\ trunk[NumOrig] = Text7
  /\ StageItems(ti, ri - 1, "counter")[1].kind = "gauge"
  /\ StageItems(ti, ri - 1, "counter")[1].value = <<7, 0>>

(***************************************************************************)
(* C8: a table whose name is neither system_stat nor                       *)
(* XBResourceRealTimeStatList sends nothing, whatever it holds, and the    *)
(* stream of the cycle is the stream of the same document without that     *)
(* table.  C8_Stream states the projection of a list of tables.            *)
(***************************************************************************)
C8_Marker ==
  [kind |-> "invalid", name |-> SansayError, value |-> NoValue,
   labels |-> <<>>]

RECURSIVE C8_SetStage(_)
C8_SetStage(fields) ==
  IF fields = <<>> THEN [items |-> <<>>, panic |-> FALSE]
  ELSE IF Head(fields).Name = <<>> THEN [items |-> <<>>, panic |-> TRUE]
  ELSE LET rest == C8_SetStage(Tail(fields))
       IN  [items |-> (IF Unmatched(Head(fields).Name) THEN <<C8_Marker>>
                       ELSE <<>>) \o rest.items,
            panic |-> rest.panic]

C8_CounterStage(row) ==
  [i \in DOMAIN TrunkCounters |->
     LET text == LastText(row, TrunkCounters[i])
     IN  IF Numeric(text)
           THEN [kind |-> "gauge",
                 name |-> SansayTrunkPrefix \o ToLower(TrunkCounters[i]),
                 value |-> ParseFloat(text).val,
                 labels |-> <<LastText(row, TrunkId), LastText(row, Alias)>>]
           ELSE C8_Marker]

C8_TrunkRow(row) ==
  LET s == C8_SetStage(row.Field)
  IN  IF s.panic \/ LastText(row, Fqdn) /= GroupText THEN s
      ELSE [items |-> s.items \o C8_CounterStage(row), panic |-> FALSE]

RECURSIVE C8_TrunkRows(_)
C8_TrunkRows(rows) ==
  IF rows = <<>> THEN [items |-> <<>>, panic |-> FALSE]
  ELSE LET first == C8_TrunkRow(Head(rows))
       IN  IF first.panic THEN first
           ELSE LET rest == C8_TrunkRows(Tail(rows))
                IN  [items |-> first.items \o rest.items, panic |-> rest.panic]

C8_Table(table) ==
  IF table.Name = SystemStatName
    THEN [items |-> C4_Expected(table), panic |-> FALSE]
    ELSE C8_TrunkRows(table.Row)

RECURSIVE C8_Tables(_)
C8_Tables(tables) ==
  IF tables = <<>> THEN [items |-> <<>>, panic |-> FALSE]
  ELSE LET first == C8_Table(Head(tables))
       IN  IF first.panic THEN first
           ELSE LET rest == C8_Tables(Tail(tables))
                IN  [items |-> first.items \o rest.items, panic |-> rest.panic]

C8_Stream(tables) ==
  LET p == C8_Tables(tables)
  IN  IF p.panic THEN p.items
      ELSE Append(p.items, [kind |-> "gauge", name |-> ScrapeDuration,
                            value |-> Elapsed, labels |-> <<>>])

C8_Known(table) ==
  table.Name \in {SystemStatName, TrunkTableName}

C8_UnknownTableIsAbsent ==
  /\ \A t \in DOMAIN Tables : ~C8_Known(Tables[t]) => TableItems(t) = <<>>
  /\ (fault = "none" /\ Terminated) =>
       VisibleSeq(ch) = C8_Stream(SelectSeq(Tables, C8_Known))

\* A finished cycle over three tables, the middle one unknown and holding
\* a full Group row, with items from the tables before and after it.
C8_Witness ==
  /\ pc = "done"
  /\ Len(Tables) = 3
  /\ Tables[2].Name = NameUpperSystemStat
  /\ Len(Tables[2].Row) = 2
  /\ TableItems(1) /= <<>>
  /\ TableItems(2) = <<>>
  /\ TableItems(3) /= <<>>

(***************************************************************************)
(* C9: round trip of setField and getField.  On every record Collect hands *)
(* to setField, for every attribute of Trunk, addressed with a lower-case  *)
(* or an upper-case first character, and every value v: setField succeeds, *)
(* a following getField with the same name returns v, and no other         *)
(* attribute changes.                                                      *)
(***************************************************************************)
C9_Values ==
  {<<>>, Text42, GroupText, <<"-","0","7",".","0">>}

C9_SetThenGet ==
  pc = "trunkfield" =>
    \A a \in TrunkAttrs :
      \A name \in {a, WireName(a)} :
        \A v \in C9_Values :
          LET s == setField(trunk, name, v)
          IN  /\ s.panic = FALSE
              /\ s.err = FALSE
              /\ getField(s.v, name) =
                   [panic |-> FALSE, err |-> FALSE, value |-> v]
              /\ [b \in TrunkAttrs \ {a} |-> s.v[b]]
                   = [b \in TrunkAttrs \ {a} |-> trunk[b]]

\* Collect has just put "42" into the record through the wire name numOrig,
\* next to a trunk identifier set before, and getField reads it back.
C9_Witness ==
  /\ pc = "trunkfield"
  /\ fi = 3
  /\ CurRow.Field[1] = Field(WireName(TrunkId), TextT1)
  /\ CurRow.Field[2] = Field(WireName(NumOrig), Text42)
  /\ getField(trunk, WireName(NumOrig)).value = Text42
  /\ getField(trunk, TrunkId).value = TextT1

(***************************************************************************)
(* C10: every trunk row is assembled into a fresh, empty record.  An       *)
(* attribute the row has not supplied is the empty string, while the row   *)
(* is read and once it is assembled; so a row without an fqdn field sends  *)
(* no counter item, also right after a Group row, and the labels of a      *)
(* Group row the row does not supply are empty.                            *)
(***************************************************************************)
C10_FreshRecordPerRow ==
  /\ pc \in {"trunkfield", "trunkgroup"} =>
       \A a \in TrunkAttrs :
         {i \in Suppliers(CurRow, a) : i < fi} = {} => trunk[a] = <<>>
  /\ RowCompleted =>
       LET row   == CompletedRow
           items == StageItems(ti, ri - 1, "counter")
       IN  /\ \A a \in TrunkAttrs :
                Suppliers(row, a) = {} => trunk[a] = <<>>
           /\ Suppliers(row, Fqdn) = {} => items = <<>>
           /\ \A i \in DOMAIN items :
                items[i].kind = "gauge" =>
                  /\ Suppliers(row, TrunkId) = {} => items[i].labels[1] = <<>>
                  /\ Suppliers(row, Alias) = {} => items[i].labels[2] = <<>>

\* The second row of a trunk table, without fqdn and alias, completed right
\* after a full Group row: it sent nothing and carries only its own T2.
C10_Witness ==
  /\ RowCompleted
  /\ ri = 3
  /\ Len(StageItems(ti, 1, "counter")) = 8
  /\ StageItems(ti, 1, "counter")[1].labels = <<TextT1, TextA1>>
  /\ Suppliers(CompletedRow, Fqdn) = {}
  /\ Suppliers(CompletedRow, NumOrig) /= {}
  /\ trunk[TrunkId] = TextT2
  /\ trunk[Alias] = <<>>
  /\ RowItems(ti, 2) = <<>>

====
